---- MODULE Spec2Model ----
(***************************************************************************)
(* Alert engine of the stock tracker: the Alert model (src/models/alert.js) *)
(* and the alert controller (src/unnamed/part_008, lines 1003-1421).        *)
(*                                                                         *)
(* The alert collection is a function from alert ids to alert records.     *)
(* Every request (an HTTP handler, a scan, a caller of a model method)     *)
(* runs in a client process: it first reads documents from the collection  *)
(* (an await), then mutates its in-memory copy and saves it.  Mongoose's   *)
(* save() writes only the paths the handler modified, keyed by _id alone,  *)
(* so requests of different processes interleave between read and save.    *)
(*                                                                         *)
(* Dates are whole minutes on the clock `now`; an absent Date is NoDate.   *)
(***************************************************************************)
EXTENDS Integers, Sequences, FiniteSets, TLC

\* ---------------------------------------------------------------- bounds
MaxTime == 1
MaxSendsBound == 2
MaxTriggers == 2
\* the clock and the cooldown of the documents the gate is applied to
GateMaxTime == 2
MaxCooldown == 1
\* the condition targets, prices, volumes and previous closes the evaluator is applied to
MaxTarget == 2
MaxPrice == 3
MaxVolume == 2
MaxClose == 2
MaxEndDate == 2
MaxNewAlerts == 2
MaxLoginAttempts == 6
AuthMaxTime == 180
AuthTickMinutes == 60
MaxWatchlistLen == 3
MaxVersion == 4

\* ------------------------------------------------------------- constants
\* `default: null` of a Date path
NoDate == -1
\* `default: null` of a Number path, an absent request field, a null volume
NoValue == -1
\* null in a request body, and the date new Date(null) makes of it: the epoch,
\* earlier than every instant of the model's clock.
NullValue == -2
EpochDate == -3
\* subscription.features.maxAlerts default
DefaultMaxAlerts == 10

Procs == {"p1", "p2"}
AlertIds == {1}
Statuses == {"ACTIVE", "TRIGGERED", "CANCELLED", "EXPIRED", "DISABLED"}
Priorities == {"LOW", "MEDIUM", "HIGH", "CRITICAL"}
ConditionTypes == {"PRICE_ABOVE", "PRICE_BELOW", "PRICE_PERCENT_UP", "PRICE_PERCENT_DOWN", "VOLUME_ABOVE", "VOLUME_BELOW", "PRICE_CHANGE_UP", "PRICE_CHANGE_DOWN"}

\* The paths of an alert document that the engine reads or writes.
AlertPaths == {"status", "isActive", "sendCount", "maxSends", "cooldownMinutes", "lastSent", "triggeredAt", "triggerCount", "triggerData", "snoozeUntil", "isMuted", "endDate", "expiresAt", "condType", "targetValue", "priority"}

\* triggerData with every sub-path at its default (null).
EmptyTriggerData == [priceAtTrigger |-> NoValue, volumeAtTrigger |-> NoValue, changeAtTrigger |-> NoValue]

\* alert.stock as a query leaves it: an ObjectId unless the query populates it.
UnpopulatedStock == [populated |-> FALSE, previousClose |-> NoValue, change |-> NoValue]

\* deleted: the _ids of removed documents (an _id is never given twice)
VARIABLES db, now, pc, docs, cursor, snap, triggered, resp, count, deleted

vars == <<db, now, pc, docs, cursor, snap, triggered, resp, count, deleted>>

\* ------------------------------------------------------- pure operators

\* virtual isExpired
isExpired(a, t) == IF a.expiresAt = NoDate THEN FALSE ELSE a.expiresAt < t

\* canTriggerAgain without its snoozeUntil rule
canTriggerAgainNoSnooze(a, t) ==
  IF a.status # "ACTIVE" THEN FALSE
  ELSE IF isExpired(a, t) THEN FALSE
  ELSE IF a.sendCount >= a.maxSends THEN FALSE
  ELSE IF a.lastSent # NoDate /\ a.cooldownMinutes > 0
       THEN (t - a.lastSent) * 60 * 1000 > a.cooldownMinutes * 60 * 1000
  ELSE TRUE

\* canTriggerAgain passing its cooldown rule from the boundary on (>= for >)
canTriggerAgainCooldownInclusive(a, t) ==
  IF a.status # "ACTIVE" THEN FALSE
  ELSE IF isExpired(a, t) THEN FALSE
  ELSE IF a.sendCount >= a.maxSends THEN FALSE
  ELSE IF a.snoozeUntil # NoDate /\ a.snoozeUntil > t THEN FALSE
  ELSE IF a.lastSent # NoDate /\ a.cooldownMinutes > 0
       THEN (t - a.lastSent) * 60 * 1000 >= a.cooldownMinutes * 60 * 1000
  ELSE TRUE

\* virtual canTriggerAgain (the gate); times in minutes, compared in ms
canTriggerAgain(a, t) ==
  IF a.status # "ACTIVE" THEN FALSE
  ELSE IF isExpired(a, t) THEN FALSE
  ELSE IF a.sendCount >= a.maxSends THEN FALSE
  ELSE IF a.snoozeUntil # NoDate /\ a.snoozeUntil > t THEN FALSE
  ELSE IF a.lastSent # NoDate /\ a.cooldownMinutes > 0
       THEN (t - a.lastSent) * 60 * 1000 > a.cooldownMinutes * 60 * 1000
  ELSE TRUE

\* The whole percentages t up to 1000 for which the doubles of
\* (t / 100) * 100 come out below t (29 gives 28.999999999999996) ...
PercentsRoundedBelow ==
  {29, 57, 58, 113, 114, 115, 116, 201, 203, 205, 207, 226, 228, 230, 232,
   251, 253, 255, 402, 406, 410, 414, 427, 431, 435, 439, 452, 456, 460, 464,
   477, 481, 485, 489, 502, 506, 510, 803, 804, 812, 820, 828, 829, 837, 845,
   853, 854, 862, 870, 878, 879, 887, 895, 903, 904, 912, 920, 928, 929, 937,
   945, 953, 954, 962, 970, 978, 979, 987, 995}

\* ... and those for which they come out above t (7 gives 7.000000000000001).
PercentsRoundedAbove ==
  {7, 14, 28, 55, 56, 109, 110, 111, 112, 218, 220, 222, 224, 243, 245, 247,
   249, 411, 415, 419, 423, 436, 440, 444, 448, 461, 465, 469, 473, 486, 490,
   494, 498, 511, 805, 813, 821, 822, 830, 838, 846, 847, 855, 863, 871, 872,
   880, 888, 896, 897, 905, 913, 921, 922, 930, 938, 946, 947, 955, 963, 971,
   972, 980, 988, 996, 997}

\* (x / y) * 100 >= target for y # 0, as the doubles compute it: off the
\* boundary the rounding is far smaller than the gap, on the boundary
\* (x / y = target / 100) the quotient is the double of target / 100 and its
\* product with 100 falls below, on or above target as tabulated
\* (targets of magnitude up to 1000).
PercentAtLeast(x, y, target) ==
  LET exact == IF y > 0 THEN x * 100 - target * y ELSE target * y - x * 100
  IN IF exact # 0 THEN exact > 0
     ELSE IF target >= 0 THEN target \notin PercentsRoundedBelow
     ELSE (0 - target) \notin PercentsRoundedAbove

\* checkConditions comparing the volume without testing that it is present
\* (volume >= target for volume && volume >= target): a null volume compares as 0
checkConditionsVolumeUnguarded(a, stock, currentPrice, volume) ==
  IF ~stock.populated THEN FALSE
  ELSE CASE a.condType = "PRICE_ABOVE" -> currentPrice >= a.targetValue
         [] a.condType = "PRICE_BELOW" -> currentPrice <= a.targetValue
         [] a.condType = "PRICE_PERCENT_UP" ->
              IF stock.previousClose = NoValue THEN FALSE
              ELSE IF stock.previousClose = 0 THEN currentPrice > 0
              ELSE PercentAtLeast(currentPrice - stock.previousClose, stock.previousClose, a.targetValue)
         [] a.condType = "PRICE_PERCENT_DOWN" ->
              IF stock.previousClose = NoValue THEN FALSE
              ELSE IF stock.previousClose = 0 THEN currentPrice < 0
              ELSE PercentAtLeast(stock.previousClose - currentPrice, stock.previousClose, a.targetValue)
         [] a.condType = "VOLUME_ABOVE" ->
              (IF volume = NoValue THEN 0 ELSE volume) >= a.targetValue
         [] a.condType = "VOLUME_BELOW" ->
              (IF volume = NoValue THEN 0 ELSE volume) <= a.targetValue
         [] a.condType = "PRICE_CHANGE_UP" ->
              stock.previousClose # NoValue /\ currentPrice - stock.previousClose >= a.targetValue
         [] a.condType = "PRICE_CHANGE_DOWN" ->
              stock.previousClose # NoValue /\ stock.previousClose - currentPrice >= a.targetValue
         [] OTHER -> FALSE

\* methods.checkConditions: truthiness of the returned value
checkConditions(a, stock, currentPrice, volume) ==
  IF ~stock.populated THEN FALSE
  ELSE CASE a.condType = "PRICE_ABOVE" -> currentPrice >= a.targetValue
         [] a.condType = "PRICE_BELOW" -> currentPrice <= a.targetValue
         [] a.condType = "PRICE_PERCENT_UP" ->
              IF stock.previousClose = NoValue THEN FALSE
              ELSE IF stock.previousClose = 0 THEN currentPrice > 0
              ELSE PercentAtLeast(currentPrice - stock.previousClose, stock.previousClose, a.targetValue)
         [] a.condType = "PRICE_PERCENT_DOWN" ->
              IF stock.previousClose = NoValue THEN FALSE
              ELSE IF stock.previousClose = 0 THEN currentPrice < 0
              ELSE PercentAtLeast(stock.previousClose - currentPrice, stock.previousClose, a.targetValue)
         [] a.condType = "VOLUME_ABOVE" ->
              volume # NoValue /\ volume # 0 /\ volume >= a.targetValue
         [] a.condType = "VOLUME_BELOW" ->
              volume # NoValue /\ volume # 0 /\ volume <= a.targetValue
         [] a.condType = "PRICE_CHANGE_UP" ->
              stock.previousClose # NoValue /\ currentPrice - stock.previousClose >= a.targetValue
         [] a.condType = "PRICE_CHANGE_DOWN" ->
              stock.previousClose # NoValue /\ stock.previousClose - currentPrice >= a.targetValue
         [] OTHER -> FALSE

\* The filter of checkStockAlerts' find (one symbol is modelled).
IsCandidate(a, t) ==
  /\ a.isActive
  /\ a.status = "ACTIVE"
  /\ (a.expiresAt = NoDate \/ a.expiresAt > t)

\* methods.trigger, up to its save(); stock is alert.stock as loaded
trigger(a, stock, currentPrice, volume, t) ==
  [a EXCEPT !.status = "TRIGGERED",
            !.triggeredAt = t,
            !.triggerCount = a.triggerCount + 1,
            !.triggerData = [priceAtTrigger |-> currentPrice, volumeAtTrigger |-> volume,
                             changeAtTrigger |-> IF stock.populated /\ stock.change # NoValue THEN stock.change ELSE 0],
            !.lastSent = t,
            !.sendCount = a.sendCount + 1,
            !.isActive = IF a.sendCount + 1 >= a.maxSends THEN FALSE ELSE a.isActive]

\* reset that leaves the send counter as it is
resetKeepingSendCount(a) ==
  [a EXCEPT !.status = "ACTIVE",
            !.triggeredAt = NoDate,
            !.triggerData = EmptyTriggerData,
            !.lastSent = NoDate]

\* methods.reset, up to its save()
reset(a) ==
  [a EXCEPT !.status = "ACTIVE",
            !.triggeredAt = NoDate,
            !.triggerData = EmptyTriggerData,
            !.sendCount = 0,
            !.lastSent = NoDate]

\* snooze that also re-arms the alert (sets status ACTIVE)
snoozeRearming(a, minutes, t) == [a EXCEPT !.snoozeUntil = t + minutes, !.status = "ACTIVE"]

\* methods.snooze, up to its save()
snooze(a, minutes, t) == [a EXCEPT !.snoozeUntil = t + minutes]

\* cancel that also clears the snooze
cancelClearingSnooze(a) == [a EXCEPT !.status = "CANCELLED", !.isActive = FALSE, !.snoozeUntil = NoDate]

\* methods.cancel, up to its save()
cancel(a) == [a EXCEPT !.status = "CANCELLED", !.isActive = FALSE]

\* methods.enable, up to its save()
enable(a) == [a EXCEPT !.status = "ACTIVE", !.isActive = TRUE]

\* methods.disable, up to its save()
disable(a) == [a EXCEPT !.status = "DISABLED", !.isActive = FALSE]

\* pre('save'): expiresAt from endDate when expiresAt is not set
preSaveExpiresAt(a) ==
  IF a.endDate # NoDate /\ a.expiresAt = NoDate THEN [a EXCEPT !.expiresAt = a.endDate] ELSE a

\* The paths save() writes: those whose value the handler changed, and those it
\* assigned a fresh object to (new Date(), a whole new triggerData), which
\* Mongoose marks modified whatever the minute on the clock.
ModifiedPaths(loaded, mutated, fresh) ==
  {f \in AlertPaths : mutated[f] # loaded[f]} \cup fresh

\* document.save(): the pre-save hooks, then $set of the modified paths on the
\* stored document, whatever it holds by now.
save(stored, loaded, mutated, fresh) ==
  LET m == preSaveExpiresAt(mutated)
      dirty == ModifiedPaths(loaded, m, fresh)
  IN [f \in AlertPaths |-> IF f \in dirty THEN m[f] ELSE stored[f]]

\* ------------------------------------------------------------ requests

\* The stock document of the one symbol modelled (Stock collection).
StockDoc == [populated |-> TRUE, previousClose |-> 2, change |-> 1]

\* What checkStockAlerts' query leaves in alert.stock: it populates 'user' only.
ScanStock(stock) == UnpopulatedStock

\* The snapshot a caller of trigger() supplies.
TriggerSnapshots == {[price |-> 3, volume |-> 2]}

\* Market snapshots a scan may supply.
Snapshots == {[price |-> 1, volume |-> NoValue], [price |-> 3, volume |-> 2]}

\* Request bodies of createAlert.
CreateBodies == [condType : {"PRICE_ABOVE"}, targetValue : {2}, maxSends : {NoValue} \cup (1..MaxSendsBound), cooldownMinutes : {NoValue}, endDate : {NoValue}]

\* Request bodies of updateAlert (the fields the engine reads).
UpdateBodies == [force : BOOLEAN, maxSends : {NoValue} \cup (1..MaxSendsBound), cooldownMinutes : {NoValue}, targetValue : {NoValue}, endDate : {NoValue}]

SnoozeMinutes == {1}

\* resp is what the latest step answered its caller, NoResponse when it answered nothing.
NoResponse == [outcome |-> "none", triggered |-> << >>]
Response(outcome, alerts) == [outcome |-> outcome, triggered |-> alerts]
NoSnapshot == [price |-> NoValue, volume |-> NoValue]

\* new Alert({...}) in createAlert, with the schema defaults
NewAlert(body) ==
  [status |-> "ACTIVE", isActive |-> TRUE, sendCount |-> 0,
   maxSends |-> IF body.maxSends = NoValue \/ body.maxSends = 0 THEN 1 ELSE body.maxSends,
   cooldownMinutes |-> IF body.cooldownMinutes = NoValue THEN 0 ELSE body.cooldownMinutes,
   lastSent |-> NoDate, triggeredAt |-> NoDate, triggerCount |-> 0,
   triggerData |-> EmptyTriggerData, snoozeUntil |-> NoDate, isMuted |-> FALSE,
   priority |-> "MEDIUM",
   endDate |-> IF body.endDate \in {NoValue, NullValue} THEN NoDate ELSE body.endDate,
   expiresAt |-> IF body.endDate \in {NoValue, NullValue} THEN NoDate ELSE body.endDate,
   condType |-> body.condType, targetValue |-> body.targetValue]

\* new Date(endDate) of a request body's endDate: null gives the epoch
DateOf(v) == IF v = NullValue THEN EpochDate ELSE v

\* updateAlert that assigns endDate and leaves expiresAt to the pre-save hook
applyUpdateEndDateOnly(a, body) ==
  [a EXCEPT !.maxSends = IF body.maxSends = NoValue \/ body.maxSends = 0 THEN a.maxSends ELSE body.maxSends,
            !.cooldownMinutes = IF body.cooldownMinutes = NoValue \/ body.cooldownMinutes = 0 THEN a.cooldownMinutes ELSE body.cooldownMinutes,
            !.targetValue = IF body.targetValue = NoValue \/ body.targetValue = 0 THEN a.targetValue ELSE body.targetValue,
            !.endDate = IF body.endDate = NoValue THEN a.endDate ELSE DateOf(body.endDate)]

\* updateAlert's assignments to the loaded document
applyUpdate(a, body) ==
  [a EXCEPT !.maxSends = IF body.maxSends = NoValue \/ body.maxSends = 0 THEN a.maxSends ELSE body.maxSends,
            !.cooldownMinutes = IF body.cooldownMinutes = NoValue \/ body.cooldownMinutes = 0 THEN a.cooldownMinutes ELSE body.cooldownMinutes,
            !.targetValue = IF body.targetValue = NoValue \/ body.targetValue = 0 THEN a.targetValue ELSE body.targetValue,
            !.endDate = IF body.endDate = NoValue THEN a.endDate ELSE DateOf(body.endDate),
            !.expiresAt = IF body.endDate = NoValue THEN a.expiresAt ELSE DateOf(body.endDate)]

\* Alert.countDocuments({ user, status: { $in: ['ACTIVE', 'TRIGGERED'] } })
userAlertCount == Cardinality({a \in DOMAIN db : db[a].status \in {"ACTIVE", "TRIGGERED"}})

\* _ids not yet given to a stored alert
FreeIdsOf(ids) == ids \ (DOMAIN db \cup deleted)

FreeIds == FreeIdsOf(AlertIds)

\* The candidates of checkStockAlerts' find, in _id order.
RECURSIVE Candidates(_, _)
Candidates(ids, t) ==
  IF ids = {} THEN << >>
  ELSE LET id == CHOOSE x \in ids : \A y \in ids : x <= y
           rest == Candidates(ids \ {id}, t)
       IN IF IsCandidate(db[id], t) THEN <<[id |-> id, loaded |-> db[id]]>> \o rest ELSE rest

Init ==
  /\ db = << >>
  /\ now = 0
  /\ pc = [p \in Procs |-> "idle"]
  /\ docs = [p \in Procs |-> << >>]
  /\ cursor = [p \in Procs |-> 1]
  /\ snap = [p \in Procs |-> NoSnapshot]
  /\ triggered = [p \in Procs |-> << >>]
  /\ resp = NoResponse
  /\ count = [p \in Procs |-> 0]
  /\ deleted = {}

\* The clock advances by a minute.
Tick ==
  /\ now < MaxTime
  /\ now' = now + 1
  /\ resp' = NoResponse
  /\ UNCHANGED <<db, pc, docs, cursor, snap, triggered, count, deleted>>

\* createAlert up to its countDocuments, with ids the _ids new alerts can get
CreateCountIn(p, ids) ==
  /\ pc[p] = "idle"
  /\ FreeIdsOf(ids) # {}
  /\ pc' = [pc EXCEPT ![p] = "creating"]
  /\ count' = [count EXCEPT ![p] = userAlertCount]
  /\ resp' = NoResponse
  /\ UNCHANGED <<db, now, docs, cursor, snap, triggered, deleted>>

CreateCount(p) == CreateCountIn(p, AlertIds)

\* createAlert from the limit check to the response
CreateSaveIn(p, body, ids) ==
  /\ pc[p] = "creating"
  /\ IF count[p] >= DefaultMaxAlerts
     THEN /\ resp' = Response("limit400", << >>)
          /\ db' = db
     ELSE /\ FreeIdsOf(ids) # {}
          /\ LET id == CHOOSE x \in FreeIdsOf(ids) : \A y \in FreeIdsOf(ids) : x <= y
             IN db' = [a \in DOMAIN db \cup {id} |-> IF a = id THEN preSaveExpiresAt(NewAlert(body)) ELSE db[a]]
          /\ resp' = Response("ok", << >>)
  /\ pc' = [pc EXCEPT ![p] = "idle"]
  /\ count' = [count EXCEPT ![p] = 0]
  /\ UNCHANGED <<now, docs, cursor, snap, triggered, deleted>>

CreateSave(p, body) == CreateSaveIn(p, body, AlertIds)

\* Alert.findOne({ _id, user }) of a handler, or of a caller of a model method;
\* with no such alert stored the handler answers 404 'Alert not found'
FindOne(p, id) ==
  /\ pc[p] = "idle"
  /\ IF id \in DOMAIN db
     THEN /\ pc' = [pc EXCEPT ![p] = "loaded"]
          /\ docs' = [docs EXCEPT ![p] = <<[id |-> id, loaded |-> db[id]]>>]
          /\ resp' = NoResponse
     ELSE /\ resp' = Response("notfound404", << >>)
          /\ UNCHANGED <<pc, docs>>
  /\ UNCHANGED <<db, now, cursor, snap, triggered, count, deleted>>

\* A handler's mutation of its loaded document, its save() and its response.
\* save() on a document that is no longer stored rejects (DocumentNotFoundError)
\* and the handler answers 500.
Commit(p, mutated, fresh) ==
  LET d == Head(docs[p]) IN
  /\ IF d.id \in DOMAIN db
     THEN /\ db' = [db EXCEPT ![d.id] = save(db[d.id], d.loaded, mutated, fresh)]
          /\ resp' = Response("ok", << >>)
     ELSE /\ db' = db
          /\ resp' = Response("error500", << >>)
  /\ pc' = [pc EXCEPT ![p] = "idle"]
  /\ docs' = [docs EXCEPT ![p] = << >>]
  /\ UNCHANGED <<now, cursor, snap, triggered, count, deleted>>

\* deleteAlert: Alert.findOneAndDelete({ _id, user }) and the response
DeleteAlert(p, id) ==
  /\ pc[p] = "idle"
  /\ IF id \in DOMAIN db
     THEN /\ db' = [a \in DOMAIN db \ {id} |-> db[a]]
          /\ deleted' = deleted \cup {id}
          /\ resp' = Response("ok", << >>)
     ELSE /\ resp' = Response("notfound404", << >>)
          /\ UNCHANGED <<db, deleted>>
  /\ UNCHANGED <<now, pc, docs, cursor, snap, triggered, count>>

\* triggerAlert (POST /alerts/:id/trigger; the controller is not among the
\* sources): the caller of trigger() confirms the gate on the alert it loaded,
\* then alert.trigger(currentPrice, volume). findOne leaves alert.stock
\* unpopulated.
Trigger(p, s) ==
  /\ pc[p] = "loaded"
  /\ Head(docs[p]).loaded.triggerCount < MaxTriggers
  /\ canTriggerAgain(Head(docs[p]).loaded, now)
  /\ Commit(p, trigger(Head(docs[p]).loaded, UnpopulatedStock, s.price, s.volume, now), {"triggeredAt", "lastSent"})

\* resetAlert: alert.reset() on the loaded document
Reset(p) ==
  /\ pc[p] = "loaded"
  /\ Commit(p, reset(Head(docs[p]).loaded), {"triggerData"})

\* alert.snooze(minutes) on a loaded document
Snooze(p, minutes) ==
  /\ pc[p] = "loaded"
  /\ Commit(p, snooze(Head(docs[p]).loaded, minutes, now), {"snoozeUntil"})

\* alert.cancel() on a loaded document
Cancel(p) ==
  /\ pc[p] = "loaded"
  /\ Commit(p, cancel(Head(docs[p]).loaded), {})

\* alert.enable() on a loaded document
Enable(p) ==
  /\ pc[p] = "loaded"
  /\ Commit(p, enable(Head(docs[p]).loaded), {})

\* alert.disable() on a loaded document
Disable(p) ==
  /\ pc[p] = "loaded"
  /\ Commit(p, disable(Head(docs[p]).loaded), {})

\* updateAlert from the TRIGGERED check to the response
UpdateAlert(p, body) ==
  /\ pc[p] = "loaded"
  /\ IF Head(docs[p]).loaded.status = "TRIGGERED" /\ ~body.force
     THEN /\ resp' = Response("triggered400", << >>)
          /\ pc' = [pc EXCEPT ![p] = "idle"]
          /\ docs' = [docs EXCEPT ![p] = << >>]
          /\ UNCHANGED <<db, now, cursor, snap, triggered, count, deleted>>
     ELSE Commit(p, applyUpdate(Head(docs[p]).loaded, body), {})

\* checkStockAlerts: the find
ScanFind(p, s) ==
  /\ pc[p] = "idle"
  /\ pc' = [pc EXCEPT ![p] = "scanning"]
  /\ docs' = [docs EXCEPT ![p] = Candidates(DOMAIN db, now)]
  /\ cursor' = [cursor EXCEPT ![p] = 1]
  /\ snap' = [snap EXCEPT ![p] = s]
  /\ triggered' = [triggered EXCEPT ![p] = << >>]
  /\ resp' = NoResponse
  /\ UNCHANGED <<db, now, count, deleted>>

\* a loop that pushes every alert it examines onto triggeredAlerts
ScanStepPushingAll(p) ==
  /\ pc[p] = "scanning"
  /\ cursor[p] <= Len(docs[p])
  /\ LET d == docs[p][cursor[p]]
         shouldTrigger == checkConditions(d.loaded, ScanStock(StockDoc), snap[p].price, snap[p].volume)
     IN /\ IF shouldTrigger /\ canTriggerAgain(d.loaded, now)
           THEN /\ d.loaded.triggerCount < MaxTriggers /\ d.id \in DOMAIN db
                /\ db' = [db EXCEPT ![d.id] = save(db[d.id], d.loaded, trigger(d.loaded, ScanStock(StockDoc), snap[p].price, snap[p].volume, now), {"triggeredAt", "lastSent"})]
           ELSE UNCHANGED db
        /\ triggered' = [triggered EXCEPT ![p] = Append(triggered[p], d.id)]
  /\ cursor' = [cursor EXCEPT ![p] = cursor[p] + 1]
  /\ resp' = NoResponse
  /\ UNCHANGED <<now, pc, docs, snap, count, deleted>>

\* checkStockAlerts: one turn of the loop over the found alerts; a trigger() whose
\* save finds the document removed rejects, and the scan rejects with it
ScanStep(p) ==
  /\ pc[p] = "scanning"
  /\ cursor[p] <= Len(docs[p])
  /\ LET d == docs[p][cursor[p]]
         shouldTrigger == checkConditions(d.loaded, ScanStock(StockDoc), snap[p].price, snap[p].volume)
     IN IF shouldTrigger /\ canTriggerAgain(d.loaded, now)
        THEN /\ d.loaded.triggerCount < MaxTriggers
             /\ IF d.id \in DOMAIN db
                THEN /\ db' = [db EXCEPT ![d.id] = save(db[d.id], d.loaded, trigger(d.loaded, ScanStock(StockDoc), snap[p].price, snap[p].volume, now), {"triggeredAt", "lastSent"})]
                     /\ triggered' = [triggered EXCEPT ![p] = Append(triggered[p], d.id)]
                     /\ cursor' = [cursor EXCEPT ![p] = cursor[p] + 1]
                     /\ resp' = NoResponse
                     /\ UNCHANGED <<pc, docs, snap>>
                ELSE /\ resp' = Response("DocumentNotFoundError", << >>)
                     /\ pc' = [pc EXCEPT ![p] = "idle"]
                     /\ docs' = [docs EXCEPT ![p] = << >>]
                     /\ cursor' = [cursor EXCEPT ![p] = 1]
                     /\ snap' = [snap EXCEPT ![p] = NoSnapshot]
                     /\ triggered' = [triggered EXCEPT ![p] = << >>]
                     /\ db' = db
        ELSE /\ cursor' = [cursor EXCEPT ![p] = cursor[p] + 1]
             /\ resp' = NoResponse
             /\ UNCHANGED <<db, triggered, pc, docs, snap>>
  /\ UNCHANGED <<now, count, deleted>>

\* checkStockAlerts: return triggeredAlerts
ScanReturn(p) ==
  /\ pc[p] = "scanning"
  /\ cursor[p] > Len(docs[p])
  /\ resp' = Response("ok", triggered[p])
  /\ pc' = [pc EXCEPT ![p] = "idle"]
  /\ docs' = [docs EXCEPT ![p] = << >>]
  /\ cursor' = [cursor EXCEPT ![p] = 1]
  /\ snap' = [snap EXCEPT ![p] = NoSnapshot]
  /\ triggered' = [triggered EXCEPT ![p] = << >>]
  /\ UNCHANGED <<db, now, count, deleted>>

\* In the full system the createAlert and updateAlert requests come from the
\* owner's session and checkStockAlerts runs in the price-update worker; the
\* model methods (trigger, reset, snooze, cancel, enable, disable) can be
\* called on a loaded document by either process.
Sessions == {"p1"}
Checkers == {"p2"}

Next ==
  \/ Tick
  \/ \E p \in Sessions : CreateCount(p)
  \/ \E p \in Sessions : \E body \in CreateBodies : CreateSave(p, body)
  \/ \E p \in Procs : \E id \in AlertIds : FindOne(p, id)
  \/ \E p \in Procs : \E s \in TriggerSnapshots : Trigger(p, s)
  \/ \E p \in Procs : Reset(p)
  \/ \E p \in Procs : \E m \in SnoozeMinutes : Snooze(p, m)
  \/ \E p \in Procs : Cancel(p)
  \/ \E p \in Procs : Enable(p)
  \/ \E p \in Procs : Disable(p)
  \/ \E p \in Sessions : \E body \in UpdateBodies : UpdateAlert(p, body)
  \/ \E p \in Sessions : \E id \in AlertIds : DeleteAlert(p, id)
  \/ \E p \in Checkers : \E s \in Snapshots : ScanFind(p, s)
  \/ \E p \in Checkers : ScanStep(p)
  \/ \E p \in Checkers : ScanReturn(p)

Spec == Init /\ [][Next]_vars

\* The engine and the lifecycle requests alone, any process in any role:
\* trigger() is reached only through checkStockAlerts' own find and loop.
EngineNext ==
  \/ Tick
  \/ \E p \in Procs : CreateCount(p)
  \/ \E p \in Procs : \E body \in CreateBodies : CreateSave(p, body)
  \/ \E p \in Procs : \E id \in AlertIds : FindOne(p, id)
  \/ \E p \in Procs : Reset(p)
  \/ \E p \in Procs : \E m \in SnoozeMinutes : Snooze(p, m)
  \/ \E p \in Procs : Cancel(p)
  \/ \E p \in Procs : Enable(p)
  \/ \E p \in Procs : Disable(p)
  \/ \E p \in Procs : \E body \in UpdateBodies : UpdateAlert(p, body)
  \/ \E p \in Procs : \E id \in AlertIds : DeleteAlert(p, id)
  \/ \E p \in Procs : \E s \in Snapshots : ScanFind(p, s)
  \/ \E p \in Procs : ScanStep(p)
  \/ \E p \in Procs : ScanReturn(p)

EngineSpec == Init /\ [][EngineNext]_vars

\* The lifecycle of created alerts within one minute: the model methods called on
\* loaded documents by either process, without scans and updateAlert.
LifecycleNext ==
  \/ \E p \in Sessions : CreateCount(p)
  \/ \E p \in Sessions : \E body \in CreateBodies : CreateSave(p, body)
  \/ \E p \in Procs : \E id \in AlertIds : FindOne(p, id)
  \/ \E p \in Procs : \E s \in TriggerSnapshots : Trigger(p, s)
  \/ \E p \in Procs : Reset(p)
  \/ \E p \in Procs : \E m \in SnoozeMinutes : Snooze(p, m)
  \/ \E p \in Procs : Cancel(p)
  \/ \E p \in Procs : Enable(p)
  \/ \E p \in Procs : Disable(p)
  \/ \E p \in Procs : \E id \in AlertIds : DeleteAlert(p, id)

LifecycleSpec == Init /\ [][LifecycleNext]_vars

\* -------------------------------------------------------------- requests
\* createAlert, updateAlert and deleteAlert requests on their own, with bodies
\* that vary the end date and the target value.

\* Request bodies of POST /alerts: bodyTargetValue is the top-level targetValue
\* the route's validation reads, targetValue is condition.targetValue.
RequestCreateBodies ==
  [condType : {"PRICE_ABOVE"}, bodyTargetValue : {NoValue, 2}, targetValue : {-MaxTarget, 1},
   maxSends : {NoValue}, cooldownMinutes : {NoValue}, endDate : {NoValue, NullValue} \cup (1..MaxEndDate)]

\* Request bodies of PUT /alerts/:id
RequestUpdateBodies ==
  [force : {FALSE}, maxSends : {NoValue}, cooldownMinutes : {NoValue},
   targetValue : {NoValue, -MaxTarget, 1}, endDate : {NoValue, NullValue} \cup (1..MaxEndDate)]

\* validateCreateAlert: stockSymbol, name and condition are present in every
\* body modelled; the top-level targetValue must be truthy.
validateCreateAlert(body) == body.bodyTargetValue # NoValue /\ body.bodyTargetValue # 0

\* POST /alerts behind its validation middleware
CreateRequest(p, body) ==
  IF validateCreateAlert(body)
  THEN CreateSave(p, body)
  ELSE /\ pc[p] = "creating"
       /\ resp' = Response("missing400", << >>)
       /\ pc' = [pc EXCEPT ![p] = "idle"]
       /\ count' = [count EXCEPT ![p] = 0]
       /\ UNCHANGED <<db, now, docs, cursor, snap, triggered, deleted>>

RequestNext ==
  \/ \E p \in Procs : CreateCount(p)
  \/ \E p \in Procs : \E body \in RequestCreateBodies : CreateRequest(p, body)
  \/ \E p \in Procs : \E id \in AlertIds : FindOne(p, id)
  \/ \E p \in Procs : \E body \in RequestUpdateBodies : UpdateAlert(p, body)
  \/ \E p \in Procs : \E id \in AlertIds : DeleteAlert(p, id)

RequestSpec == Init /\ [][RequestNext]_vars

\* ------------------------------------------------------------------ gate

\* Stored alert documents the gate and the candidate query are applied to: every
\* combination of the paths they read, within the schema's validators.
\* userPreferences.isMuted keeps the schema's default: no code assigns it.
GateAlerts ==
  {[status |-> st, isActive |-> act, sendCount |-> sc, maxSends |-> 1,
    cooldownMinutes |-> cd, lastSent |-> ls, triggeredAt |-> NoDate, triggerCount |-> 0,
    triggerData |-> EmptyTriggerData, snoozeUntil |-> sn, isMuted |-> FALSE,
    priority |-> "MEDIUM",
    endDate |-> ex, expiresAt |-> ex, condType |-> "PRICE_ABOVE", targetValue |-> 2] :
     st \in Statuses, act \in BOOLEAN, sc \in 0..1, cd \in 0..MaxCooldown,
     ls \in {NoDate, 0}, sn \in {NoDate, 1}, ex \in {NoDate, 1}}

\* The response of updateAlert: the handler reads the document's canTriggerAgain
\* and isExpired virtuals into the alert data it answers with.
GateResponse(a, t) ==
  [outcome |-> "ok", triggered |-> << >>, canTriggerAgain |-> canTriggerAgain(a, t), isExpired |-> isExpired(a, t)]

GateInit ==
  /\ db \in [AlertIds -> GateAlerts]
  /\ now \in 0..GateMaxTime
  /\ pc = [p \in Procs |-> "idle"]
  /\ docs = [p \in Procs |-> << >>]
  /\ cursor = [p \in Procs |-> 1]
  /\ snap = [p \in Procs |-> NoSnapshot]
  /\ triggered = [p \in Procs |-> << >>]
  /\ resp = NoResponse
  /\ count = [p \in Procs |-> 0]
  /\ deleted = {}

\* updateAlert with a body that changes no path (force set): its save() writes
\* nothing and it answers with the loaded document and its virtuals.
ReadGate(p) ==
  /\ pc[p] = "loaded"
  /\ resp' = GateResponse(Head(docs[p]).loaded, now)
  /\ pc' = [pc EXCEPT ![p] = "idle"]
  /\ docs' = [docs EXCEPT ![p] = << >>]
  /\ UNCHANGED <<db, now, cursor, snap, triggered, count, deleted>>

GateNext ==
  \/ \E p \in Sessions : \E id \in AlertIds : FindOne(p, id)
  \/ \E p \in Sessions : ReadGate(p)
  \/ \E p \in Sessions : \E s \in TriggerSnapshots : Trigger(p, s)
  \/ \E p \in Checkers : \E s \in Snapshots : ScanFind(p, s)
  \/ \E p \in Checkers : ScanStep(p)
  \/ \E p \in Checkers : ScanReturn(p)

GateSpec == GateInit /\ [][GateNext]_vars

\* ------------------------------------------------------------- evaluator

\* Stock documents as a query that populates 'stock' with dailyData loads them;
\* dailyData.previousClose has no default and may be absent. A close of 100
\* with a price of 129 or 71 is a move of 29 percent, which the double
\* division and multiplication of checkConditions give as 28.999999999999996.
EvalStocks == {[populated |-> TRUE, previousClose |-> c, change |-> NoValue] : c \in {NoValue, 100} \cup (0..MaxClose)}

\* Market snapshots: a price and a volume, null when the caller passes none.
EvalSnapshots == [price : (0..MaxPrice) \cup {71, 129}, volume : {NoValue} \cup (0..MaxVolume)]

\* Stored active alerts of every condition type and target.
EvalAlerts ==
  {NewAlert([condType |-> ct, targetValue |-> tv, maxSends |-> NoValue, cooldownMinutes |-> NoValue, endDate |-> NoValue]) :
     ct \in ConditionTypes, tv \in (0..MaxTarget) \cup {29}}

\* What alert.checkConditions(currentPrice, volume) returned to its caller.
EvalResponse(met) == [outcome |-> "ok", triggered |-> << >>, met |-> met]

EvalInit ==
  /\ db \in [AlertIds -> EvalAlerts]
  /\ now = 0
  /\ pc = [p \in Procs |-> "idle"]
  /\ docs = [p \in Procs |-> << >>]
  /\ cursor = [p \in Procs |-> 1]
  /\ snap = [p \in Procs |-> NoSnapshot]
  /\ triggered = [p \in Procs |-> << >>]
  /\ resp = NoResponse
  /\ count = [p \in Procs |-> 0]
  /\ deleted = {}

\* Alert.findActiveByUser: the find with its filter, 'stock' populated with
\* dailyData (one alert is stored, so the sort has nothing to order).
FindActiveByUser(p, stock) ==
  /\ pc[p] = "idle"
  /\ \E id \in DOMAIN db :
       /\ IsCandidate(db[id], now)
       /\ docs' = [docs EXCEPT ![p] = <<[id |-> id, loaded |-> db[id], stock |-> stock]>>]
  /\ pc' = [pc EXCEPT ![p] = "loaded"]
  /\ resp' = NoResponse
  /\ UNCHANGED <<db, now, cursor, snap, triggered, count, deleted>>

\* alert.checkConditions(currentPrice, volume) on a loaded document
CheckConditions(p, s) ==
  /\ pc[p] = "loaded"
  /\ "stock" \in DOMAIN Head(docs[p])
  /\ snap' = [snap EXCEPT ![p] = s]
  /\ resp' = EvalResponse(checkConditions(Head(docs[p]).loaded, Head(docs[p]).stock, s.price, s.volume))
  /\ UNCHANGED <<db, now, pc, docs, cursor, triggered, count, deleted>>

EvalNext ==
  \/ \E p \in Sessions : \E stock \in EvalStocks : FindActiveByUser(p, stock)
  \/ \E p \in Sessions : \E s \in EvalSnapshots : CheckConditions(p, s)
  \/ \E p \in Checkers : \E s \in Snapshots : ScanFind(p, s)
  \/ \E p \in Checkers : ScanStep(p)
  \/ \E p \in Checkers : ScanReturn(p)

EvalSpec == EvalInit /\ [][EvalNext]_vars

\* ------------------------------------------------------------------ scan

\* Two stored alerts of one symbol, in creation order.
ScanIds == {1, 2}

\* Stored alerts of every priority, active or disabled, with the condition
\* PRICE_ABOVE 2.
ScanAlerts ==
  {[NewAlert([condType |-> "PRICE_ABOVE", targetValue |-> 2, maxSends |-> NoValue, cooldownMinutes |-> NoValue, endDate |-> NoValue])
      EXCEPT !.priority = pr, !.status = st, !.isActive = (st = "ACTIVE")] :
     pr \in Priorities, st \in {"ACTIVE", "DISABLED"}}

ScanInit ==
  /\ db \in [ScanIds -> ScanAlerts]
  /\ now = 0
  /\ pc = [p \in Procs |-> "idle"]
  /\ docs = [p \in Procs |-> << >>]
  /\ cursor = [p \in Procs |-> 1]
  /\ snap = [p \in Procs |-> NoSnapshot]
  /\ triggered = [p \in Procs |-> << >>]
  /\ resp = NoResponse
  /\ count = [p \in Procs |-> 0]
  /\ deleted = {}

ScanNext ==
  \/ \E p \in Checkers : \E s \in Snapshots : ScanFind(p, s)
  \/ \E p \in Checkers : ScanStep(p)
  \/ \E p \in Checkers : ScanReturn(p)

ScanSpec == ScanInit /\ [][ScanNext]_vars

\* ----------------------------------------------------------------- rearm
\* Scans and reset() on their own, over a stored alert that is fresh or has
\* been through one trigger().

\* A created alert of each maxSends, and what one trigger() makes of it.
RearmAlerts ==
  LET fresh(m) == NewAlert([condType |-> "PRICE_ABOVE", targetValue |-> 2, maxSends |-> m, cooldownMinutes |-> NoValue, endDate |-> NoValue])
  IN {fresh(m) : m \in 1..MaxSendsBound} \cup {trigger(fresh(m), UnpopulatedStock, 3, 2, 0) : m \in 1..MaxSendsBound}

RearmInit ==
  /\ db \in [AlertIds -> RearmAlerts]
  /\ now = 0
  /\ pc = [p \in Procs |-> "idle"]
  /\ docs = [p \in Procs |-> << >>]
  /\ cursor = [p \in Procs |-> 1]
  /\ snap = [p \in Procs |-> NoSnapshot]
  /\ triggered = [p \in Procs |-> << >>]
  /\ resp = NoResponse
  /\ count = [p \in Procs |-> 0]
  /\ deleted = {}

RearmNext ==
  \/ Tick
  \/ \E p \in Procs : \E id \in AlertIds : FindOne(p, id)
  \/ \E p \in Procs : Reset(p)
  \/ \E p \in Procs : \E s \in Snapshots : ScanFind(p, s)
  \/ \E p \in Procs : ScanStep(p)
  \/ \E p \in Procs : ScanReturn(p)

RearmSpec == RearmInit /\ [][RearmNext]_vars

\* ----------------------------------------------------------------- limit
\* One user a single alert short of the subscription's maxAlerts: createAlert
\* with enable, disable, reset and cancel on the alerts created from there.

\* The alerts the user already has, all ACTIVE, and the _ids of the next ones.
LimitStoredIds == 1..(DefaultMaxAlerts - 1)
LimitNewIds == DefaultMaxAlerts..(DefaultMaxAlerts + MaxNewAlerts - 1)
LimitBodies == {b \in CreateBodies : b.maxSends = NoValue}

LimitInit ==
  /\ db = [id \in LimitStoredIds |-> NewAlert(CHOOSE b \in LimitBodies : TRUE)]
  /\ now = 0
  /\ pc = [p \in Procs |-> "idle"]
  /\ docs = [p \in Procs |-> << >>]
  /\ cursor = [p \in Procs |-> 1]
  /\ snap = [p \in Procs |-> NoSnapshot]
  /\ triggered = [p \in Procs |-> << >>]
  /\ resp = NoResponse
  /\ count = [p \in Procs |-> 0]
  /\ deleted = {}

LimitNext ==
  \/ \E p \in Procs : CreateCountIn(p, LimitNewIds)
  \/ \E p \in Procs : \E body \in LimitBodies : CreateSaveIn(p, body, LimitNewIds)
  \/ \E p \in Procs : \E id \in LimitNewIds : FindOne(p, id)
  \/ \E p \in Procs : Reset(p)
  \/ \E p \in Procs : Cancel(p)
  \/ \E p \in Procs : Enable(p)
  \/ \E p \in Procs : Disable(p)

LimitSpec == LimitInit /\ [][LimitNext]_vars

\* ----------------------------------------------------------------- login
\* POST /auth/login on one account. Here db is the users collection, docs[p]
\* the user document a request loaded, and the clock moves an hour at a time.

UserIds == {1}
\* the identifiers of login requests: the account's, and one of no account
LoginIdentifiers == UserIds \cup {2}
\* `this.loginAttempts + 1 >= 5`
MaxFailedLogins == 5
\* the lock's length: 2 * 60 * 60 * 1000 ms
LockMinutes == 120
BlankUser == [loginAttempts |-> 0, lockUntil |-> NoDate, isActive |-> TRUE, lastLogin |-> NoDate]

\* virtual isLocked
isLocked(u, t) == u.lockUntil # NoDate /\ u.lockUntil > t

\* methods.canAuthenticate
canAuthenticate(u, t) == u.isActive /\ ~isLocked(u, t)

\* methods.incrementLoginAttempts: the update is chosen from the loaded copy
\* and applied by updateOne to the stored document
incrementLoginAttempts(stored, copy, t) ==
  IF copy.lockUntil # NoDate /\ copy.lockUntil < t
  THEN [stored EXCEPT !.loginAttempts = 1, !.lockUntil = NoDate]
  ELSE [stored EXCEPT !.loginAttempts = stored.loginAttempts + 1,
                      !.lockUntil = IF copy.loginAttempts + 1 >= MaxFailedLogins /\ ~isLocked(copy, t)
                                    THEN t + LockMinutes ELSE stored.lockUntil]

\* methods.resetLoginAttempts (updateOne on the stored document)
resetLoginAttempts(stored) == [stored EXCEPT !.loginAttempts = 0, !.lockUntil = NoDate]

AuthInit ==
  /\ db = [u \in UserIds |-> BlankUser]
  /\ now = 0
  /\ pc = [p \in Procs |-> "idle"]
  /\ docs = [p \in Procs |-> << >>]
  /\ cursor = [p \in Procs |-> 1]
  /\ snap = [p \in Procs |-> NoSnapshot]
  /\ triggered = [p \in Procs |-> << >>]
  /\ resp = NoResponse
  /\ count = [p \in Procs |-> 0]
  /\ deleted = {}

\* An hour passes.
AuthTick ==
  /\ now < AuthMaxTime
  /\ now' = now + AuthTickMinutes
  /\ resp' = NoResponse
  /\ UNCHANGED <<db, pc, docs, cursor, snap, triggered, count, deleted>>

\* login: await User.findByEmailOrUsername(identifier); the handler holds what
\* the query returned, null for an identifier of no account
LoginFind(p, u) ==
  /\ pc[p] = "idle"
  /\ pc' = [pc EXCEPT ![p] = "found"]
  /\ docs' = [docs EXCEPT ![p] = <<[id |-> u, found |-> u \in DOMAIN db,
                                   loaded |-> IF u \in DOMAIN db THEN db[u] ELSE BlankUser]>>]
  /\ resp' = NoResponse
  /\ UNCHANGED <<db, now, cursor, snap, triggered, count, deleted>>

\* login resumed after the find: the 401 for no user, the 423 when the copy
\* it holds cannot authenticate at the present time, else on to
\* await user.comparePassword(password)
LoginCheck(p) ==
  LET d == Head(docs[p]) IN
  /\ pc[p] = "found"
  /\ IF ~d.found
     THEN /\ resp' = Response("invalid401", << >>)
          /\ pc' = [pc EXCEPT ![p] = "idle"]
          /\ docs' = [docs EXCEPT ![p] = << >>]
     ELSE IF ~canAuthenticate(d.loaded, now)
     THEN /\ resp' = Response("locked423", << >>)
          /\ pc' = [pc EXCEPT ![p] = "idle"]
          /\ docs' = [docs EXCEPT ![p] = << >>]
     ELSE /\ resp' = NoResponse
          /\ pc' = [pc EXCEPT ![p] = "authenticating"]
          /\ docs' = docs
  /\ UNCHANGED <<db, now, cursor, snap, triggered, count, deleted>>

\* login with a wrong password: incrementLoginAttempts and the 401
LoginFail(p) ==
  LET d == Head(docs[p]) IN
  /\ pc[p] = "authenticating"
  /\ db[d.id].loginAttempts < MaxLoginAttempts
  /\ db' = [db EXCEPT ![d.id] = incrementLoginAttempts(db[d.id], d.loaded, now)]
  /\ pc' = [pc EXCEPT ![p] = "idle"]
  /\ docs' = [docs EXCEPT ![p] = << >>]
  /\ resp' = Response("invalid401", << >>)
  /\ UNCHANGED <<now, cursor, snap, triggered, count, deleted>>

\* login with the right password, first write: await user.resetLoginAttempts()
LoginSucceed(p) ==
  LET d == Head(docs[p]) IN
  /\ pc[p] = "authenticating"
  /\ db' = [db EXCEPT ![d.id] = resetLoginAttempts(db[d.id])]
  /\ pc' = [pc EXCEPT ![p] = "signing"]
  /\ resp' = NoResponse
  /\ UNCHANGED <<now, docs, cursor, snap, triggered, count, deleted>>

\* login with the right password, second write and the answer:
\* user.lastLogin = new Date(); await user.save(), which writes lastLogin only
LoginSave(p) ==
  LET d == Head(docs[p]) IN
  /\ pc[p] = "signing"
  /\ db' = [db EXCEPT ![d.id] = [db[d.id] EXCEPT !.lastLogin = now]]
  /\ pc' = [pc EXCEPT ![p] = "idle"]
  /\ docs' = [docs EXCEPT ![p] = << >>]
  /\ resp' = Response("ok", << >>)
  /\ UNCHANGED <<now, cursor, snap, triggered, count, deleted>>

AuthNext ==
  \/ AuthTick
  \/ \E p \in Procs : \E u \in LoginIdentifiers : LoginFind(p, u)
  \/ \E p \in Procs : LoginCheck(p)
  \/ \E p \in Procs : LoginFail(p)
  \/ \E p \in Procs : LoginSucceed(p)
  \/ \E p \in Procs : LoginSave(p)

AuthSpec == AuthInit /\ [][AuthNext]_vars

\* ------------------------------------------------------------- watchlist
\* POST /watchlist and DELETE /watchlist/:symbol of one user. Here db is the
\* users collection: the watchlist's symbols in order and the version key
\* __v, which save() increments on every array change and checks only when it
\* writes the array whole.

\* subscription.features.maxWatchlistItems
DefaultMaxWatchlistItems == 20
RequestSymbols == {"aapl", "AAPL", "MSFT"}
\* symbol.toUpperCase()
toUpperCase(symbol) == IF symbol = "aapl" THEN "AAPL" ELSE symbol
BlankWatcher == [watchlist |-> << >>, v |-> 0]

\* methods.hasInWatchlist
hasInWatchlist(u, symbol) == \E i \in 1..Len(u.watchlist) : u.watchlist[i] = toUpperCase(symbol)

\* this.watchlist.filter(stock => stock.symbol !== symbol.toUpperCase())
RECURSIVE filterOut(_, _)
filterOut(list, symbol) ==
  IF list = << >> THEN << >>
  ELSE IF Head(list) = toUpperCase(symbol) THEN filterOut(Tail(list), symbol)
       ELSE <<Head(list)>> \o filterOut(Tail(list), symbol)

WatchInit ==
  /\ db = [u \in UserIds |-> BlankWatcher]
  /\ now = 0
  /\ pc = [p \in Procs |-> "idle"]
  /\ docs = [p \in Procs |-> << >>]
  /\ cursor = [p \in Procs |-> 1]
  /\ snap = [p \in Procs |-> NoSnapshot]
  /\ triggered = [p \in Procs |-> << >>]
  /\ resp = NoResponse
  /\ count = [p \in Procs |-> 0]
  /\ deleted = {}

\* User.findById(req.user.id) of either handler
WatchFind(p, u) ==
  /\ pc[p] = "idle"
  /\ pc' = [pc EXCEPT ![p] = "watching"]
  /\ docs' = [docs EXCEPT ![p] = <<[id |-> u, loaded |-> db[u]]>>]
  /\ resp' = NoResponse
  /\ UNCHANGED <<db, now, cursor, snap, triggered, count, deleted>>

\* addToWatchlist after its reads: user.addToWatchlist (the duplicate and limit
\* checks on the loaded list, push, save: a $push on the stored list); a
\* rejected add is answered at once, a stored one after the handler's re-read
AddToWatchlist(p, symbol) ==
  LET d == Head(docs[p]) IN
  /\ pc[p] = "watching"
  /\ IF hasInWatchlist(d.loaded, symbol)
     THEN /\ resp' = Response("already409", << >>)
          /\ db' = db
          /\ pc' = [pc EXCEPT ![p] = "idle"]
          /\ docs' = [docs EXCEPT ![p] = << >>]
     ELSE IF Len(d.loaded.watchlist) >= DefaultMaxWatchlistItems
     THEN /\ resp' = Response("limit400", << >>)
          /\ db' = db
          /\ pc' = [pc EXCEPT ![p] = "idle"]
          /\ docs' = [docs EXCEPT ![p] = << >>]
     ELSE /\ Len(db[d.id].watchlist) < MaxWatchlistLen /\ db[d.id].v < MaxVersion
          /\ db' = [db EXCEPT ![d.id] = [watchlist |-> Append(db[d.id].watchlist, toUpperCase(symbol)), v |-> db[d.id].v + 1]]
          /\ resp' = NoResponse
          /\ pc' = [pc EXCEPT ![p] = "added"]
          /\ docs' = [docs EXCEPT ![p] = <<[id |-> d.id, loaded |-> d.loaded, symbol |-> symbol]>>]
  /\ UNCHANGED <<now, cursor, snap, triggered, count, deleted>>

\* addToWatchlist after the save: the re-read of the user and the answer; with
\* the new item gone from the list by then, newItem.symbol throws and the
\* handler answers 500
AddRespond(p) ==
  LET d == Head(docs[p]) IN
  /\ pc[p] = "added"
  /\ resp' = IF hasInWatchlist(db[d.id], d.symbol) THEN Response("ok", << >>) ELSE Response("error500", << >>)
  /\ pc' = [pc EXCEPT ![p] = "idle"]
  /\ docs' = [docs EXCEPT ![p] = << >>]
  /\ UNCHANGED <<db, now, cursor, snap, triggered, count, deleted>>

\* removeFromWatchlist after its read: the hasInWatchlist check, then
\* user.removeFromWatchlist (filter, save: a $set of the whole list, refused
\* with a version error when __v has moved) and the response
RemoveFromWatchlist(p, symbol) ==
  LET d == Head(docs[p]) IN
  /\ pc[p] = "watching"
  /\ IF ~hasInWatchlist(d.loaded, symbol)
     THEN /\ resp' = Response("notfound404", << >>)
          /\ db' = db
     ELSE IF db[d.id].v # d.loaded.v
     THEN /\ resp' = Response("error500", << >>)
          /\ db' = db
     ELSE /\ db[d.id].v < MaxVersion
          /\ db' = [db EXCEPT ![d.id] = [watchlist |-> filterOut(d.loaded.watchlist, symbol), v |-> db[d.id].v + 1]]
          /\ resp' = Response("ok", << >>)
  /\ pc' = [pc EXCEPT ![p] = "idle"]
  /\ docs' = [docs EXCEPT ![p] = << >>]
  /\ UNCHANGED <<now, cursor, snap, triggered, count, deleted>>

WatchNext ==
  \/ \E p \in Procs : \E u \in UserIds : WatchFind(p, u)
  \/ \E p \in Procs : \E symbol \in RequestSymbols : AddToWatchlist(p, symbol)
  \/ \E p \in Procs : AddRespond(p)
  \/ \E p \in Procs : \E symbol \in RequestSymbols : RemoveFromWatchlist(p, symbol)

WatchSpec == WatchInit /\ [][WatchNext]_vars

\* ---------------------------------------------------------------- claims

\* The loaded document process p is about to act on, and its alert id.
Doc(p) == docs[p][cursor[p]]

\* Process p's loaded document is the alert as stored: nothing was committed since its read.
Current(p) == Doc(p).id \in DOMAIN db /\ db[Doc(p).id] = Doc(p).loaded

\* Process p read its document while the alert was ACTIVE, and a trigger() on the
\* alert has been committed since (only trigger() stores TRIGGERED).
TriggeredSinceRead(p) ==
  /\ Doc(p).loaded.status = "ACTIVE"
  /\ Doc(p).id \in DOMAIN db
  /\ db[Doc(p).id].status = "TRIGGERED"

\* C1: when a process read an alert while it was eligible and another process has
\* committed a trigger() on that alert since, its own trigger() fails with
\* ConcurrentModificationError and commits nothing, so one trigger is committed
\* and reported in total.
C1_OneCommitPerWindow ==
  [][\A p \in Procs :
       /\ \A s \in TriggerSnapshots :
            (/\ pc[p] = "loaded"
             /\ canTriggerAgain(Doc(p).loaded, now)
             /\ TriggeredSinceRead(p)
             /\ Trigger(p, s))
            => (resp'.outcome = "ConcurrentModificationError" /\ db' = db)
       /\ (/\ pc[p] = "scanning"
           /\ cursor[p] <= Len(docs[p])
           /\ canTriggerAgain(Doc(p).loaded, now)
           /\ TriggeredSinceRead(p)
           /\ ScanStep(p))
          => (triggered'[p] = triggered[p] /\ db' = db)
    ]_vars

\* C2: every stored alert has notification.sendCount <= notification.maxSends.
C2_SendCountWithinMax ==
  \A a \in DOMAIN db : db[a].sendCount <= db[a].maxSends

\* C3: the trigger() commit that brings sendCount to maxSends leaves isActive
\* false, and no scan selects as a candidate an alert with sendCount = maxSends.
C3_QuotaReachedNeverRescanned ==
  /\ [](\A p \in Procs : pc[p] = "scanning" =>
          \A i \in 1..Len(docs[p]) : docs[p][i].loaded.sendCount # docs[p][i].loaded.maxSends)
  /\ [][\A p \in Procs : \A s \in TriggerSnapshots :
          (/\ pc[p] = "loaded"
           /\ Current(p)
           /\ Trigger(p, s)
           /\ db'[Doc(p).id].sendCount = db'[Doc(p).id].maxSends)
          => ~db'[Doc(p).id].isActive
       ]_vars

\* C4: reset() on an alert that is not CANCELLED leaves it ACTIVE with sendCount 0,
\* lastSent and triggeredAt cleared and isActive true.
C4_ResetRearms ==
  [][\A p \in Procs :
       (/\ pc[p] = "loaded"
        /\ Current(p)
        /\ Doc(p).loaded.status # "CANCELLED"
        /\ Reset(p))
       => LET a == db'[Doc(p).id]
          IN /\ a.status = "ACTIVE"
             /\ a.sendCount = 0
             /\ a.lastSent = NoDate
             /\ a.triggeredAt = NoDate
             /\ a.isActive
    ]_vars

\* C5: a stored alert whose status is CANCELLED keeps that status in every step.
C5_CancelledIsTerminal ==
  [][\A a \in DOMAIN db \cap DOMAIN db' : db[a].status = "CANCELLED" => db'[a].status = "CANCELLED"]_vars

\* C6: reset(), enable() and disable() on a CANCELLED alert each fail with
\* InvalidStateError and leave the stored alert unchanged.
C6_CancelledRejectsTransitions ==
  [][\A p \in Procs :
       (/\ pc[p] = "loaded"
        /\ Current(p)
        /\ Doc(p).loaded.status = "CANCELLED"
        /\ (Reset(p) \/ Enable(p) \/ Disable(p)))
       => (resp'.outcome = "InvalidStateError" /\ db' = db)
    ]_vars

\* C7: the gate is false for every TRIGGERED, CANCELLED or DISABLED alert, and a
\* stored alert goes from TRIGGERED to ACTIVE only in a step of reset().
C7_OnlyResetRearms ==
  /\ [](\A a \in DOMAIN db :
          db[a].status \in {"TRIGGERED", "CANCELLED", "DISABLED"} => ~canTriggerAgain(db[a], now))
  /\ [][\A a \in DOMAIN db \cap DOMAIN db' :
          (db[a].status = "TRIGGERED" /\ db'[a].status = "ACTIVE")
          => \E p \in Procs : pc[p] = "loaded" /\ Doc(p).id = a /\ Reset(p)
       ]_vars

\* C8: the stored triggerCount never decreases, grows by exactly 1 in every
\* trigger() commit, and is unchanged by every other operation.
C8_TriggerCountMonotonic ==
  [][\A a \in DOMAIN db \cap DOMAIN db' :
       /\ db'[a].triggerCount >= db[a].triggerCount
       /\ \A p \in Procs : \A s \in TriggerSnapshots :
            (pc[p] = "loaded" /\ Doc(p).id = a /\ Trigger(p, s))
            => db'[a].triggerCount = db[a].triggerCount + 1
       /\ \A p \in Procs :
            (/\ pc[p] = "loaded"
             /\ Doc(p).id = a
             /\ \/ Reset(p) \/ Cancel(p) \/ Enable(p) \/ Disable(p)
                \/ \E m \in SnoozeMinutes : Snooze(p, m)
                \/ \E body \in UpdateBodies : UpdateAlert(p, body))
            => db'[a].triggerCount = db[a].triggerCount
    ]_vars

\* C9: a scan commits trigger() on, and returns, every candidate whose condition
\* the supplied price and volume meet and whose gate passes.
C9_ScanTriggersEligible ==
  [][\A p \in Procs :
       (/\ pc[p] = "scanning"
        /\ cursor[p] <= Len(docs[p])
        /\ checkConditions(Doc(p).loaded, StockDoc, snap[p].price, snap[p].volume)
        /\ canTriggerAgain(Doc(p).loaded, now)
        /\ ScanStep(p))
       => /\ triggered'[p] = Append(triggered[p], Doc(p).id)
          /\ db'[Doc(p).id].status = "TRIGGERED"
    ]_vars

\* Every alert record in the system: the stored ones and the loaded copies.
AlertRecords ==
  {db[a] : a \in DOMAIN db} \cup UNION {{docs[p][i].loaded : i \in 1..Len(docs[p])} : p \in Procs}

\* C10: the gate is false for every alert whose snoozeUntil is later than now, no
\* step of a scan triggers such an alert, and once snoozeUntil <= now the gate is
\* what it is for the same alert without a snooze.
C10_SnoozedNeverFires ==
  /\ [](\A r \in AlertRecords :
          /\ (r.snoozeUntil # NoDate /\ r.snoozeUntil > now) => ~canTriggerAgain(r, now)
          /\ (r.snoozeUntil # NoDate /\ r.snoozeUntil <= now) =>
               (canTriggerAgain(r, now) = canTriggerAgain([r EXCEPT !.snoozeUntil = NoDate], now)))
  /\ [][\A p \in Procs :
          (/\ pc[p] = "scanning"
           /\ cursor[p] <= Len(docs[p])
           /\ Doc(p).loaded.snoozeUntil # NoDate
           /\ Doc(p).loaded.snoozeUntil > now
           /\ ScanStep(p))
          => (db' = db /\ triggered'[p] = triggered[p])
       ]_vars

\* A scan has evaluated, with a snapshot that meets its condition, a snoozed alert
\* that passes every other rule of the gate, and the gate is false for it.
C10_Witness ==
  \E p \in Procs :
    /\ pc[p] = "scanning"
    /\ cursor[p] > Len(docs[p])
    /\ Len(docs[p]) >= 1
    /\ LET r == docs[p][1].loaded
       IN /\ r.snoozeUntil # NoDate
          /\ r.snoozeUntil > now
          /\ checkConditions(r, StockDoc, snap[p].price, snap[p].volume)
          /\ canTriggerAgain([r EXCEPT !.snoozeUntil = NoDate], now)
          /\ ~canTriggerAgain(r, now)
          /\ docs[p][1].id \in DOMAIN db
          /\ db[docs[p][1].id] = r

\* The gate rules of the specification other than the cooldown rule.
OtherGateRulesPass(r, t) ==
  /\ r.status = "ACTIVE"
  /\ (r.expiresAt = NoDate \/ r.expiresAt > t)
  /\ r.sendCount < r.maxSends
  /\ (r.snoozeUntil = NoDate \/ r.snoozeUntil <= t)
  /\ ~r.isMuted

\* C12: for every alert record that passes every other gate rule, the gate is
\* false when lastSent is set, cooldownMinutes > 0 and now - lastSent <=
\* cooldownMinutes, and true otherwise (now - lastSent > cooldownMinutes, lastSent
\* absent, or cooldownMinutes = 0).
C12_CooldownBoundary ==
  \A r \in AlertRecords :
    OtherGateRulesPass(r, now) =>
      (canTriggerAgain(r, now) <=>
         (r.lastSent = NoDate \/ r.cooldownMinutes = 0 \/ now - r.lastSent > r.cooldownMinutes))

\* A response reported canTriggerAgain false for a stored alert that passes every
\* other rule and whose cooldown ends exactly now.
C12_Witness ==
  /\ "canTriggerAgain" \in DOMAIN resp
  /\ ~resp.canTriggerAgain
  /\ \E a \in DOMAIN db :
       /\ OtherGateRulesPass(db[a], now)
       /\ db[a].lastSent # NoDate
       /\ db[a].cooldownMinutes > 0
       /\ now - db[a].lastSent = db[a].cooldownMinutes

\* C13: an alert whose expiresAt is set and not later than now is never among a
\* scan's candidates, a response never reports canTriggerAgain for it, and the
\* trigger step never commits on it.
C13_ExpiredNeverFires ==
  /\ [](\A p \in Procs : pc[p] = "scanning" =>
          \A i \in 1..Len(docs[p]) :
            docs[p][i].loaded.expiresAt = NoDate \/ docs[p][i].loaded.expiresAt > now)
  /\ [][\A p \in Procs :
          (/\ pc[p] = "loaded"
           /\ Doc(p).loaded.expiresAt # NoDate
           /\ Doc(p).loaded.expiresAt <= now) =>
            /\ ReadGate(p) => ~resp'.canTriggerAgain
            /\ \A s \in TriggerSnapshots : ~Trigger(p, s)
       ]_vars

\* Another caller has committed a change of a committable field of the alert since
\* process p read it.
ChangedSinceRead(p) ==
  LET l == Doc(p).loaded
      d == db[Doc(p).id]
  IN /\ Doc(p).id \in DOMAIN db
     /\ \/ d.status # l.status
        \/ d.isActive # l.isActive
        \/ d.sendCount # l.sendCount
        \/ d.triggerCount # l.triggerCount
        \/ d.snoozeUntil # l.snoozeUntil

\* C14: a trigger step of a process whose alert changed after it read it (a commit
\* of cancel(), disable(), snooze() or trigger() by another caller) is abandoned:
\* it leaves the stored alert as the other caller committed it.
C14_NoTriggerOverChangedState ==
  [][\A p \in Procs :
       /\ \A s \in TriggerSnapshots :
            (pc[p] = "loaded" /\ ChangedSinceRead(p) /\ Trigger(p, s)) => db' = db
       /\ (/\ pc[p] = "scanning"
           /\ cursor[p] <= Len(docs[p])
           /\ ChangedSinceRead(p)
           /\ ScanStep(p)) => db' = db
    ]_vars

\* The specification's table of condition predicates, for a present volume and a
\* previous close > 0.
ConditionTable(type, target, price, volume, previousClose) ==
  CASE type = "PRICE_ABOVE" -> price >= target
    [] type = "PRICE_BELOW" -> price <= target
    [] type = "PRICE_PERCENT_UP" -> (price - previousClose) * 100 >= target * previousClose
    [] type = "PRICE_PERCENT_DOWN" -> (previousClose - price) * 100 >= target * previousClose
    [] type = "VOLUME_ABOVE" -> volume >= target
    [] type = "VOLUME_BELOW" -> volume <= target
    [] type = "PRICE_CHANGE_UP" -> price - previousClose >= target
    [] type = "PRICE_CHANGE_DOWN" -> previousClose - price >= target

\* C15: with price, volume (0 included) and a previous close > 0 present,
\* checkConditions answers met exactly when the table's predicate of the alert's
\* condition type holds.
C15_EvaluatorTable ==
  [][\A p \in Procs : \A s \in EvalSnapshots :
       (/\ pc[p] = "loaded"
        /\ CheckConditions(p, s)
        /\ s.volume # NoValue
        /\ Doc(p).stock.previousClose # NoValue
        /\ Doc(p).stock.previousClose > 0)
       => (resp'.met <=> ConditionTable(Doc(p).loaded.condType, Doc(p).loaded.targetValue,
                                        s.price, s.volume, Doc(p).stock.previousClose))
    ]_vars

\* C16: for PRICE_PERCENT_UP and PRICE_PERCENT_DOWN, checkConditions answers not
\* met whenever the previous close is absent or zero.
C16_PercentNeedsPreviousClose ==
  [][\A p \in Procs : \A s \in EvalSnapshots :
       (/\ pc[p] = "loaded"
        /\ CheckConditions(p, s)
        /\ Doc(p).loaded.condType \in {"PRICE_PERCENT_UP", "PRICE_PERCENT_DOWN"}
        /\ Doc(p).stock.previousClose \in {NoValue, 0})
       => ~resp'.met
    ]_vars

\* C17: checkConditions answers not met for the volume conditions when the volume
\* is absent and for the percent and change conditions when the previous close is
\* absent, and a scan step with such a snapshot commits no trigger.
C17_MissingDataNotMet ==
  /\ [](\A p \in Procs :
          (pc[p] = "loaded" /\ "met" \in DOMAIN resp /\ "stock" \in DOMAIN Doc(p)) =>
            /\ (snap[p].volume = NoValue /\ Doc(p).loaded.condType \in {"VOLUME_ABOVE", "VOLUME_BELOW"})
                 => ~resp.met
            /\ (/\ Doc(p).stock.previousClose = NoValue
                /\ Doc(p).loaded.condType \in {"PRICE_PERCENT_UP", "PRICE_PERCENT_DOWN", "PRICE_CHANGE_UP", "PRICE_CHANGE_DOWN"})
                 => ~resp.met)
  /\ [][\A p \in Procs :
          (/\ pc[p] = "scanning"
           /\ cursor[p] <= Len(docs[p])
           /\ snap[p].volume = NoValue
           /\ Doc(p).loaded.condType \in {"VOLUME_ABOVE", "VOLUME_BELOW"}
           /\ ScanStep(p))
          => (db' = db /\ cursor'[p] = cursor[p] + 1)
       ]_vars

\* checkConditions has answered not met for a VOLUME_BELOW alert with target 2 and
\* an absent volume.
C17_Witness ==
  \E p \in Procs :
    /\ pc[p] = "loaded"
    /\ "met" \in DOMAIN resp
    /\ ~resp.met
    /\ snap[p].volume = NoValue
    /\ Doc(p).loaded.condType = "VOLUME_BELOW"
    /\ Doc(p).loaded.targetValue = 2

\* C20: every stored alert whose status is TRIGGERED has triggeredAt set and
\* triggerCount >= 1.
C20_TriggeredHasHistory ==
  \A a \in DOMAIN db :
    db[a].status = "TRIGGERED" => (db[a].triggeredAt # NoDate /\ db[a].triggerCount >= 1)

\* C21: cancel() on an alert that is already CANCELLED (the caller's copy is the
\* stored document) succeeds and leaves it CANCELLED with isActive false and every
\* other path as it was.
C21_CancelIdempotent ==
  [][\A p \in Procs :
       (/\ pc[p] = "loaded"
        /\ Current(p)
        /\ Doc(p).loaded.status = "CANCELLED"
        /\ Cancel(p))
       => /\ resp'.outcome = "ok"
          /\ db'[Doc(p).id].status = "CANCELLED"
          /\ ~db'[Doc(p).id].isActive
          /\ \A f \in AlertPaths \ {"status", "isActive"} : db'[Doc(p).id][f] = db[Doc(p).id][f]
    ]_vars

\* A request on a CANCELLED, snoozed alert has just been answered ok while the
\* other process holds it loaded as CANCELLED, and the stored alert is still
\* what that process read: its cancel() is a cancel of a cancelled alert.
C21_Witness ==
  /\ resp.outcome = "ok"
  /\ \E p \in Procs :
       /\ pc[p] = "loaded"
       /\ Current(p)
       /\ Doc(p).loaded.status = "CANCELLED"
       /\ ~Doc(p).loaded.isActive
       /\ Doc(p).loaded.snoozeUntil # NoDate
       /\ Doc(p).loaded.triggerCount = 0

\* C22: snooze(minutes) on an alert that is not CANCELLED (the caller's copy is the
\* stored document) stores snoozeUntil = now + minutes and leaves every other
\* path as it was.
C22_SnoozeFrame ==
  [][\A p \in Procs : \A m \in SnoozeMinutes :
       (/\ pc[p] = "loaded"
        /\ Current(p)
        /\ Doc(p).loaded.status # "CANCELLED"
        /\ Snooze(p, m))
       => /\ db'[Doc(p).id].snoozeUntil = now + m
          /\ \A f \in AlertPaths \ {"snoozeUntil"} : db'[Doc(p).id][f] = db[Doc(p).id][f]
    ]_vars

\* A snooze(1) has been committed on an alert that the other process had read
\* as DISABLED and not snoozed: the stored alert differs from that copy in
\* snoozeUntil alone.
C22_Witness ==
  /\ resp.outcome = "ok"
  /\ \E p \in Procs :
       /\ pc[p] = "loaded"
       /\ Doc(p).loaded.status = "DISABLED"
       /\ Doc(p).loaded.snoozeUntil = NoDate
       /\ Doc(p).id \in DOMAIN db
       /\ db[Doc(p).id] = [Doc(p).loaded EXCEPT !.snoozeUntil = now + 1]

\* C23: in every stored state reachable through createAlert and updateAlert,
\* expiresAt equals endDate (both set or both absent), and a step that changes
\* an alert's expiresAt also changes its endDate.
C23_ExpiresAtFollowsEndDate ==
  /\ [](\A id \in DOMAIN db : db[id].expiresAt = db[id].endDate)
  /\ [][\A id \in DOMAIN db \cap DOMAIN db' :
          db'[id].expiresAt # db[id].expiresAt => db'[id].endDate # db[id].endDate]_vars

\* An updateAlert moved a stored end date, and the expiry went with it.
C23_Witness ==
  /\ resp.outcome = "ok"
  /\ \E p \in Procs : /\ pc[p] = "loaded" /\ Doc(p).loaded.endDate = 1
       /\ Doc(p).id \in DOMAIN db
       /\ db[Doc(p).id].endDate = 2 /\ db[Doc(p).id].expiresAt = 2

\* C24: no stored alert has a negative target value.
C24_TargetValueNonNegative == \A id \in DOMAIN db : db[id].targetValue >= 0

\* C25: a turn of the scan's loop over a candidate whose condition evaluates to
\* false, or whose gate is false, leaves that alert's status, isActive,
\* sendCount, lastSent, triggerCount, triggeredAt and triggerData as stored and
\* does not put it on the list the scan returns.
C25_UntriggeredLeftUntouched ==
  [][\A p \in Checkers :
       /\ (/\ pc[p] = "scanning" /\ cursor[p] <= Len(docs[p])
           /\ ~(/\ checkConditions(Doc(p).loaded, ScanStock(StockDoc), snap[p].price, snap[p].volume)
                /\ canTriggerAgain(Doc(p).loaded, now))
           /\ ScanStep(p))
          => /\ \A f \in {"status", "isActive", "sendCount", "lastSent", "triggerCount", "triggeredAt", "triggerData"} :
                  db'[Doc(p).id][f] = db[Doc(p).id][f]
             /\ \A i \in 1..Len(triggered'[p]) : triggered'[p][i] # Doc(p).id
       /\ (pc[p] = "scanning" /\ ScanReturn(p)) => resp'.triggered = triggered[p]
    ]_vars

\* A scan with the price above the target has passed over both stored alerts:
\* both are as it read them and neither is on its list.
C25_Witness ==
  \E p \in Checkers :
    /\ pc[p] = "scanning" /\ snap[p].price = 3
    /\ Len(docs[p]) = 2 /\ cursor[p] = 3
    /\ \A i \in 1..2 : db[docs[p][i].id] = docs[p][i].loaded
    /\ triggered[p] = << >>

\* C26: every stored alert whose status is CANCELLED or DISABLED has
\* isActive = false.
C26_CancelledOrDisabledInactive ==
  \A id \in DOMAIN db : db[id].status \in {"CANCELLED", "DISABLED"} => ~db[id].isActive

\* C27: with scans and reset() only, no alert's sendCount exceeds 1 whatever
\* its maxSends; a TRIGGERED alert leaves that status only in a reset(), and a
\* reset() of the alert as stored puts sendCount back to 0 with status ACTIVE.
C27_SendCountAtMostOne ==
  /\ [](\A id \in DOMAIN db : db[id].sendCount <= 1)
  /\ [][\A id \in DOMAIN db :
          (db[id].status = "TRIGGERED" /\ db'[id].status # "TRIGGERED")
          => \E p \in Procs : pc[p] = "loaded" /\ Doc(p).id = id /\ Reset(p)]_vars
  /\ [][\A p \in Procs :
          (pc[p] = "loaded" /\ Current(p) /\ Reset(p))
          => db'[Doc(p).id].sendCount = 0 /\ db'[Doc(p).id].status = "ACTIVE"]_vars

\* An alert with maxSends 2 that was triggered once and reset, passed over by a
\* scan with the price above its target.
C27_Witness ==
  \E p \in Procs :
    /\ pc[p] = "scanning" /\ snap[p].price = 3 /\ Len(docs[p]) = 1 /\ cursor[p] = 2
    /\ db[docs[p][1].id].maxSends = 2 /\ db[docs[p][1].id].triggerCount = 1
    /\ db[docs[p][1].id].status = "ACTIVE" /\ db[docs[p][1].id].sendCount = 0

\* C28: the user's alerts with status ACTIVE or TRIGGERED never number more
\* than the subscription's maxAlerts, and a createAlert that counted maxAlerts
\* or more is answered with the limit error and stores nothing.
C28_AlertLimitHolds ==
  /\ [](userAlertCount <= DefaultMaxAlerts)
  /\ [][\A p \in Procs : \A body \in LimitBodies :
          (pc[p] = "creating" /\ count[p] >= DefaultMaxAlerts /\ CreateSaveIn(p, body, LimitNewIds))
          => resp'.outcome = "limit400" /\ db' = db]_vars

\* C29: an account with 5 or more failed password attempts recorded since its
\* last successful login has a lock set; a login that read the account with a
\* lock that is still in the future when it is checked is answered with the
\* locked response and changes nothing; a successful login leaves
\* loginAttempts 0 and no lockUntil.
C29_LockAfterFiveFailures ==
  /\ [](\A u \in DOMAIN db : db[u].loginAttempts >= MaxFailedLogins => db[u].lockUntil # NoDate)
  /\ [][\A p \in Procs :
          (/\ pc[p] = "found"
           /\ Doc(p).found
           /\ Doc(p).loaded.lockUntil # NoDate
           /\ Doc(p).loaded.lockUntil > now
           /\ LoginCheck(p))
          => resp'.outcome = "locked423" /\ db' = db /\ pc'[p] = "idle"]_vars
  /\ [][\A p \in Procs :
          (pc[p] = "authenticating" /\ LoginSucceed(p))
          => db'[Doc(p).id].loginAttempts = 0 /\ db'[Doc(p).id].lockUntil = NoDate]_vars

\* C30: no stored watchlist holds the same symbol twice, and an addToWatchlist
\* for a symbol that is on the stored list is answered 'Stock already in
\* watchlist' and leaves the list as it is.
C30_NoDuplicateSymbols ==
  /\ [](\A u \in DOMAIN db : \A i, j \in 1..Len(db[u].watchlist) :
           db[u].watchlist[i] = db[u].watchlist[j] => i = j)
  /\ [][\A p \in Procs : \A symbol \in RequestSymbols :
          (pc[p] = "watching" /\ hasInWatchlist(db[Doc(p).id], symbol) /\ AddToWatchlist(p, symbol))
          => resp'.outcome = "already409" /\ db' = db]_vars

====
